---- MODULE Spec2Model ----
(***************************************************************************)
(* A model of atlas generators (src/atlas/generators.py): Generator        *)
(* objects with a strategy, an ordered hook list, a lazily compiled        *)
(* function and an optional group; the generate / trace enumerations as    *)
(* resumable iterators; and the hook wrapper built by compile_op.          *)
(***************************************************************************)
EXTENDS Integers, Sequences, FiniteSets, TLC

\* ------------------------------------------------------------------ bounds
MaxGens == 3        \* Generator objects constructed
MaxStrat == 3       \* Strategy instances created
NumHooks == 2       \* user Hook objects
MaxHooks == 2       \* length of a hook list built by register_hooks
MaxTraces == 1      \* DefaultTracer objects created by trace()
DomN == 2           \* size of the first Select's domain
DomM == 3           \* size of the second Select's domain
MaxSkips == 2       \* choice combinations on which the function skips
MaxRandRuns == 2    \* runs pulled from a never-ending (randomized) enumeration
MaxOps == 4         \* calls made by the consumer (next() not counted)
MaxNodes == 3       \* call nodes in the source of a generator function
MaxPos == 2         \* positional arguments passed to generator()
MaxGraphs == 3      \* graphs in the input of get_batch_iterator
MaxGraphNodes == 2  \* nodes of one graph
MaxBatchSize == 2   \* the batch_size argument

Null == [none |-> TRUE, strategy |-> 0, hooks |-> <<>>, ops |-> <<>>, body |-> <<>>]

Gens == 1..MaxGens
StratIds == 1..MaxStrat
UserHooks == 1..NumHooks
Tracers == (NumHooks + 1)..(NumHooks + MaxTraces)
HookIds == UserHooks \cup Tracers
GroupNames == {"G"}
NoGroup == "None"
Names == {"N"}
NoName == "None"

Range(s) == {s[i] : i \in 1..Len(s)}

\* The element of a one-element set.
Only(S) == CHOOSE x \in S : TRUE

VARIABLES
    ngen,           \* number of Generator objects constructed so far
    func,           \* Generator.func: the call nodes of the wrapped function's source
    strategy,       \* Generator.strategy: the Strategy instance of each generator
    compiled_func,  \* Generator._compiled_func: Null or what it was compiled against
    group,          \* Generator.group
    hooks,          \* Generator.hooks
    group_registry, \* genutils: group name -> ordered list of members
    name_registry,  \* genutils: generator name -> the generator registered under it
    nstrat,         \* number of Strategy instances created so far
    sstate,         \* exploration state of each Strategy instance
    ntracer,        \* number of DefaultTracer objects created so far
    cur_trace,      \* DefaultTracer.cur_trace of the active trace()'s tracer
    hraise,         \* which event of each user hook raises ("none", "before", "after")
    en,             \* the enumeration (generate / trace iterator) the consumer holds
    log,            \* lifecycle events issued by the enumeration, in order
    op_events,      \* events of the most recent invocation of a compiled operator
    last,           \* the most recent call of the consumer and how it ended
    bi,             \* the Network.get_batch_iterator iterator the consumer holds
    nops            \* configuration calls made so far

vars == <<ngen, func, strategy, compiled_func, group, hooks, group_registry,
          name_registry, nstrat, sstate, ntracer, cur_trace, hraise, en, log, op_events,
          last, bi, nops>>

cfgvars == <<ngen, func, strategy, compiled_func, group, hooks, group_registry,
             name_registry, nstrat>>

\* ------------------------------------------------------------ strategies
\* A Strategy instance that has not been created yet.
NoStrategy == [kind |-> "none", call_id |-> 0, op_iter_map |-> <<>>,
               last_unfinished |-> 0, finished |-> FALSE]

\* DfsStrategy() / RandStrategy(): a new instance.
NewStrategy(kind) == [kind |-> kind, call_id |-> 0, op_iter_map |-> <<>>,
                      last_unfinished |-> 0, finished |-> FALSE]

\* The argument of make_strategy: a Strategy instance or an identifier.
StrategyArgs ==
    {[name |-> n, inst |-> 0] : n \in {"dfs", "randomized", "bogus"}}
        \cup {[name |-> "instance", inst |-> i] : i \in 1..nstrat}

\* make_strategy: the instance is returned as is, 'randomized' and 'dfs' build a
\* new instance, anything else raises.
make_strategy_default(arg) ==
    IF arg.name = "instance"
    THEN [raised |-> "none", sid |-> arg.inst, fresh |-> FALSE, kind |-> "none"]
    ELSE IF arg.name = "randomized"
    THEN [raised |-> "none", sid |-> nstrat + 1, fresh |-> TRUE, kind |-> "rand"]
    ELSE [raised |-> "none", sid |-> nstrat + 1, fresh |-> TRUE, kind |-> "dfs"]

make_strategy(arg) ==
    IF arg.name = "instance"
    THEN [raised |-> "none", sid |-> arg.inst, fresh |-> FALSE, kind |-> "none"]
    ELSE IF arg.name = "randomized"
    THEN [raised |-> "none", sid |-> nstrat + 1, fresh |-> TRUE, kind |-> "rand"]
    ELSE IF arg.name = "dfs"
    THEN [raised |-> "none", sid |-> nstrat + 1, fresh |-> TRUE, kind |-> "dfs"]
    ELSE [raised |-> "Exception", sid |-> 0, fresh |-> FALSE, kind |-> "none"]

\* Whether make_strategy(arg) can be modelled within the instance bound.
CanMake(arg) == arg.name \in {"dfs", "randomized"} => nstrat < MaxStrat

\* The Strategy instances after make_strategy(arg) returned ms.
AfterMake(ms) ==
    /\ nstrat' = IF ms.fresh THEN nstrat + 1 ELSE nstrat
    /\ sstate' = IF ms.fresh THEN [sstate EXCEPT ![ms.sid] = NewStrategy(ms.kind)]
                 ELSE sstate

\* A Strategy instance of the consumer's own class whose exploration space is
\* empty: is_finished() is true from the start, and init() leaves it so.
EmptyStrategy == [kind |-> "empty", call_id |-> 0, op_iter_map |-> <<>>,
                  last_unfinished |-> 0, finished |-> TRUE]

\* ---------------------------------------------------------------- groups
\* get_group_by_name: the members of a group, in registration order.
get_group_by_name(grp) == group_registry[grp]

\* The generators a call on g with as_group reaches: g itself and, with group
\* propagation, every other member of g's group (in registration order).
Others_always(g, as_group) ==
    IF group[g] # NoGroup
    THEN SelectSeq(get_group_by_name(group[g]), LAMBDA x : x # g)
    ELSE <<>>

Others(g, as_group) ==
    IF as_group /\ group[g] # NoGroup
    THEN SelectSeq(get_group_by_name(group[g]), LAMBDA x : x # g)
    ELSE <<>>

\* list.remove(hook): the list without the first occurrence of hook.
Remove(hs, h) ==
    LET i == CHOOSE k \in 1..Len(hs) : hs[k] = h /\ \A j \in 1..(k - 1) : hs[j] # h
    IN  SubSeq(hs, 1, i - 1) \o SubSeq(hs, i + 1, Len(hs))

\* "self._compiled_func = None" on every generator of `targets`.
Invalidated_keep(targets) == compiled_func

Invalidated(targets) ==
    [x \in Gens |-> IF x \in targets THEN Null ELSE compiled_func[x]]

\* ------------------------------------------------- the consumer's calls
\* The consumer acts only while no enumeration step is executing.
Quiet == en.pc # "loop"

Called(op, g, raised, as_group, h) ==
    [op |-> op, g |-> g, raised |-> raised, as_group |-> as_group, h |-> h,
     value |-> <<>>, note |-> "", kw |-> {}, args |-> <<>>]

\* "gen_group = get_group_by_name(group); self.strategy = gen_group[0].strategy"
\* (KeyError, swallowed, for a group without members): the strategy of a new
\* generator that declares group grp and built `own` from its own argument.
GroupStrategy_last(grp, own) ==
    IF grp # NoGroup /\ Len(get_group_by_name(grp)) > 0
    THEN strategy[get_group_by_name(grp)[Len(get_group_by_name(grp))]]
    ELSE own

GroupStrategy(grp, own) ==
    IF grp # NoGroup /\ Len(get_group_by_name(grp)) > 0
    THEN strategy[get_group_by_name(grp)[1]]
    ELSE own

\* register_generator(self, name): the generator is the one known by the name.
register_generator(g, name) == [name_registry EXCEPT ![name] = g]

\* register_group(self, group): the generator is the last member of the group.
register_group(g, grp) == [group_registry EXCEPT ![grp] = Append(@, g)]

\* Generator.__init__, reached by the call `op` of the consumer that was given
\* the positional arguments args and the keywords kw: make_strategy (which may
\* raise), then the registration under the name, then a generator that
\* declares a group with members takes the strategy of the group's first
\* member, and is appended to the group.
New(op, fn, arg, name, grp, kw, args) ==
    LET g == ngen + 1
        ms == make_strategy(arg)
    IN  /\ Quiet /\ ngen < MaxGens /\ CanMake(arg) /\ nops < MaxOps
        /\ nops' = nops + 1
        /\ IF ms.raised # "none"
           THEN /\ UNCHANGED <<ngen, func, strategy, compiled_func, group, hooks,
                               group_registry, name_registry, nstrat, sstate>>
                /\ last' = [Called(op, 0, ms.raised, FALSE, 0)
                                EXCEPT !.note = arg.name, !.kw = kw, !.args = args]
           ELSE /\ AfterMake(ms)
                /\ ngen' = g
                /\ func' = [func EXCEPT ![g] = fn]
                /\ strategy' = [strategy EXCEPT ![g] = GroupStrategy(grp, ms.sid)]
                /\ compiled_func' = [compiled_func EXCEPT ![g] = Null]
                /\ name_registry' = IF name # NoName THEN register_generator(g, name)
                                    ELSE name_registry
                /\ group' = [group EXCEPT ![g] = grp]
                /\ group_registry' = IF grp # NoGroup THEN register_group(g, grp)
                                     ELSE group_registry
                /\ hooks' = [hooks EXCEPT ![g] = <<>>]
                /\ last' = [Called(op, g, "none", FALSE, ms.sid)
                                EXCEPT !.note = arg.name, !.kw = kw, !.args = args]
        /\ UNCHANGED <<ntracer, cur_trace, hraise, en, log, op_events, bi>>

\* Generator(func, strategy, name, group) called by the consumer.
Construct(fn, arg, name, grp) == New("construct", fn, arg, name, grp, {}, <<>>)

\* Generator.set_strategy: the target gets make_strategy(strategy) and a null
\* compiled function; with as_group every other member of its group gets that
\* same instance and a null compiled function.
SetStrategy(g, arg, as_group) ==
    LET ms == make_strategy(arg)
        targets == {g} \cup Range(Others(g, as_group))
    IN  /\ Quiet /\ g \in 1..ngen /\ CanMake(arg) /\ nops < MaxOps
        /\ IF ms.raised # "none"
           THEN UNCHANGED <<strategy, compiled_func, nstrat, sstate>>
           ELSE /\ AfterMake(ms)
                /\ strategy' = [x \in Gens |-> IF x \in targets THEN ms.sid
                                               ELSE strategy[x]]
                /\ compiled_func' = Invalidated(targets)
        /\ last' = [Called("set_strategy", g, ms.raised, as_group, 0)
                        EXCEPT !.note = arg.name]
        /\ nops' = nops + 1
        /\ UNCHANGED <<ngen, group, hooks, group_registry, name_registry, func,
                       ntracer, cur_trace, hraise, en, log, op_events, bi>>

\* The hook lists and compiled functions after g.register_hooks(*hs, as_group).
RegisteredHooks(g, hs, as_group) ==
    LET targets == {g} \cup Range(Others(g, as_group))
    IN  [x \in Gens |-> IF x \in targets THEN hooks[x] \o hs ELSE hooks[x]]

RegisteredCompiled(g, as_group) == Invalidated({g} \cup Range(Others(g, as_group)))

\* Generator.register_hooks: extends the target's list, nulls its compiled
\* function and, with as_group, does the same on every other group member.
RegisterHooks(g, hs, as_group) ==
    /\ Quiet /\ g \in 1..ngen /\ nops < MaxOps
    /\ \A x \in {g} \cup Range(Others(g, as_group)) : Len(hooks[x]) + Len(hs) <= MaxHooks
    /\ hooks' = RegisteredHooks(g, hs, as_group)
    /\ compiled_func' = RegisteredCompiled(g, as_group)
    /\ last' = Called("register_hooks", g, "none", as_group, IF hs = <<>> THEN 0 ELSE hs[1])
    /\ nops' = nops + 1
    /\ UNCHANGED <<ngen, strategy, group, group_registry, name_registry, func, nstrat,
                   sstate, ntracer, cur_trace, hraise, en, log, op_events, bi>>

\* g.deregister_hook(h, as_group) as the code runs it: the target raises
\* ValueError when h is not in its list; otherwise h is removed from the target
\* and then, member by member, from the others, up to the first member whose
\* list does not hold h, where ValueError is raised.
Deregistered_lenient(g, h, as_group) ==
    LET changed == {x \in {g} \cup Range(Others(g, as_group)) : h \in Range(hooks[x])}
    IN  [raised |-> IF h \notin Range(hooks[g]) THEN "ValueError" ELSE "none",
         hooks |-> [x \in Gens |-> IF x \in changed THEN Remove(hooks[x], h)
                                   ELSE hooks[x]],
         compiled_func |-> Invalidated(changed)]

Deregistered(g, h, as_group) ==
    LET others == Others(g, as_group)
        bad == {i \in 1..Len(others) : h \notin Range(hooks[others[i]])}
        stop == IF bad = {} THEN Len(others) + 1
                ELSE CHOOSE i \in bad : \A j \in bad : i <= j
        changed == IF h \in Range(hooks[g])
                   THEN {g} \cup {others[i] : i \in 1..(stop - 1)}
                   ELSE {}
    IN  [raised |-> IF h \notin Range(hooks[g]) \/ bad # {} THEN "ValueError" ELSE "none",
         hooks |-> [x \in Gens |-> IF x \in changed THEN Remove(hooks[x], h)
                                   ELSE hooks[x]],
         compiled_func |-> Invalidated(changed)]

\* Generator.deregister_hook.
DeregisterHook(g, h, as_group) ==
    LET d == Deregistered(g, h, as_group)
    IN  /\ Quiet /\ g \in 1..ngen /\ nops < MaxOps
        /\ hooks' = d.hooks
        /\ compiled_func' = d.compiled_func
        /\ last' = Called("deregister_hook", g, d.raised, as_group, h)
        /\ nops' = nops + 1
        /\ UNCHANGED <<ngen, strategy, group, group_registry, name_registry, func,
                       nstrat, sstate, ntracer, cur_trace, hraise, en, log, op_events,
                       bi>>

\* ------------------------------------------- strategies: exploration state
\* Strategy.init(): the exhaustive strategy forgets every choice point.
s_init(st) ==
    IF st.kind = "dfs"
    THEN [st EXCEPT !.call_id = 0, !.op_iter_map = <<>>, !.last_unfinished = 0,
                    !.finished = FALSE]
    ELSE st

\* Strategy.init_run(): the exhaustive strategy restarts the count of calls.
s_init_run(st) ==
    IF st.kind = "dfs" THEN [st EXCEPT !.call_id = 0, !.last_unfinished = 0] ELSE st

\* Strategy.finish_run(): the exhaustive strategy advances the deepest choice
\* point that has an alternative left and forgets the deeper ones; with none
\* left the exploration is finished.
s_finish_run(st) ==
    IF st.kind # "dfs" THEN st
    ELSE IF st.last_unfinished = 0 THEN [st EXCEPT !.finished = TRUE]
    ELSE LET k == st.last_unfinished
         IN  [st EXCEPT !.op_iter_map =
                  Append(SubSeq(st.op_iter_map, 1, k - 1), st.op_iter_map[k] + 1)]

\* Strategy.finish().
s_finish(st) == st

\* RandStrategy.is_finished(): False in every state.
RandIsFinished_true(st) == TRUE

RandIsFinished(st) == FALSE

\* The exhaustive strategy's is_finished(): whether its exploration is over.
DfsIsFinished(st) == st.finished

\* is_finished() of a strategy whose exploration space is empty.
EmptyIsFinished(st) == TRUE

\* self.strategy.is_finished(), on the instance's class.
is_finished(st) ==
    IF st.kind = "rand" THEN RandIsFinished(st)
    ELSE IF st.kind = "empty" THEN EmptyIsFinished(st)
    ELSE DfsIsFinished(st)

\* RandStrategy.Select: random.choice(domain), here the element `pick`.
RandSelect(st, dom, pick) == [st |-> st, retval |-> pick]

\* The exhaustive strategy's Select: the current alternative of this call's
\* choice point (the first one for a new choice point); the choice point is
\* remembered as unfinished while alternatives are left after it.
DfsSelect(st, dom) ==
    LET cid == st.call_id + 1
        m == IF cid > Len(st.op_iter_map) THEN Append(st.op_iter_map, 1)
             ELSE st.op_iter_map
    IN  [st |-> [st EXCEPT !.call_id = cid, !.op_iter_map = m,
                           !.last_unfinished = IF m[cid] < dom THEN cid ELSE @],
         retval |-> m[cid]]

\* The callable process_op returned for a Select call site: the operator of the
\* strategy instance the function was compiled against.
Select(st, dom, pick) ==
    IF st.kind = "rand" THEN RandSelect(st, dom, pick) ELSE DfsSelect(st, dom)

\* ------------------------------------------------------------- compile_op
Ev(e, h, sid, retval) == [e |-> e, h |-> h, sid |-> sid, retval |-> retval]

\* Whether hook h raises in the given event; the tracer never does.
Raises(h, e) == h \in UserHooks /\ hraise[h] = e

\* The first position of hs whose hook raises in event e, or 0.
FirstRaise(hs, e) ==
    LET bad == {i \in 1..Len(hs) : Raises(hs[i], e)}
    IN  IF bad = {} THEN 0 ELSE CHOOSE i \in bad : \A j \in bad : i <= j

\* The wrapper with the after_op loop running over reversed(hooks).
create_op_reversed(hs, sid, dom, st, pick) ==
    LET n == Len(hs)
        b == FirstRaise(hs, "before")
        rev == [i \in 1..n |-> hs[n + 1 - i]]
        a == FirstRaise(rev, "after")
        r == Select(st, dom, pick)
        befores(k) == [i \in 1..k |-> Ev("before_op", hs[i], sid, 0)]
        afters(k) == [i \in 1..k |-> Ev("after_op", rev[i], sid, r.retval)]
    IN  IF b > 0
        THEN [events |-> befores(b), raised |-> TRUE, retval |-> 0, st |-> st]
        ELSE [events |-> befores(n) \o <<Ev("op", 0, sid, r.retval)>>
                           \o afters(IF a > 0 THEN a ELSE n),
              raised |-> a > 0, retval |-> r.retval, st |-> r.st]

\* compile_op / create_op: one invocation of the operator of call site sid
\* compiled with hooks hs, on strategy state st.  With no hooks the operator
\* is called as is.  Otherwise: before_op of every hook in list order, the
\* operator, after_op of every hook in list order with the operator's value;
\* a raising hook ends the invocation there.
create_op(hs, sid, dom, st, pick) ==
    LET b == FirstRaise(hs, "before")
        a == FirstRaise(hs, "after")
        r == Select(st, dom, pick)
        befores(n) == [i \in 1..n |-> Ev("before_op", hs[i], sid, 0)]
        afters(n) == [i \in 1..n |-> Ev("after_op", hs[i], sid, r.retval)]
    IN  IF b > 0
        THEN [events |-> befores(b), raised |-> TRUE, retval |-> 0, st |-> st]
        ELSE [events |-> befores(Len(hs)) \o <<Ev("op", 0, sid, r.retval)>>
                           \o afters(IF a > 0 THEN a ELSE Len(hs)),
              raised |-> a > 0, retval |-> r.retval, st |-> r.st]

\* The callable process_op hands out for call site sid of operator op_name, bound
\* to strategy instance strat.
OpOf(strat, op_name, sid, oid) ==
    [kind |-> "op", strategy |-> strat, op_name |-> op_name, sid |-> sid, oid |-> oid,
     hooks |-> <<>>]

\* "def create_op": a new closure over op and hooks.
Wrapper(op, hs) == [op EXCEPT !.kind = "create_op", !.hooks = hs]

\* compile_op: "if len(hooks) == 0: return op", else the create_op closure.
compile_op_always(op, hs) == Wrapper(op, hs)

compile_op(op, hs) == IF Len(hs) = 0 THEN op ELSE Wrapper(op, hs)

\* One invocation of a callable returned by compile_op.
Invoke(f, dom, st, pick) ==
    IF f.kind = "op"
    THEN Only({[events |-> <<Ev("op", 0, f.sid, r.retval)>>, raised |-> FALSE,
                retval |-> r.retval, st |-> r.st] : r \in {Select(st, dom, pick)}})
    ELSE create_op(f.hooks, f.sid, dom, st, pick)

\* ------------------------------------------------------------ compile_func
\* The source of a generator function, as far as compile_func looks at it: its
\* call nodes in preorder, each with the kind of its callee (a bare name or an
\* attribute), the callee's name and the value of its 'oid' keyword (absent, a
\* string literal or another expression).
Callees == {"name", "attr"}
CalleeIds == {"Select", "helper"}
Oids == {"none", "str", "expr"}
Nodes == [callee : Callees, id : CalleeIds, oid : Oids]

\* strategy.get_known_ops(): the operators a strategy defines.
known_ops == {"Select"}

\* The names process_op substitutes, one per call site.
NewOpNames == <<"_atlas_Select_1", "_atlas_Select_2">>

\* The functions of the model: at most MaxNodes call nodes, at most Len(Doms)
\* of them calls of Select.
Doms == <<DomN, DomM>>
Funcs ==
    {fn \in UNION {[1..n -> Nodes] : n \in 0..MaxNodes} :
        Cardinality({i \in DOMAIN fn : fn[i].id \in known_ops}) <= Len(Doms)}

\* The wrapped function of the enumerations: two Select call sites in sequence,
\* over domains of DomN and DomM elements,
\*     def f(length, skips, errs):
\*         s = (Select(D1),)
\*         if length > 1: s += (Select(D2),)
\*         if s in skips: raise ExceptionAsContinue
\*         if s in errs: raise ValueError
\*         return s
\* (every function of Funcs runs its Select call sites in sequence like f does,
\* as many of them as `length` says).
SelectCall == [callee |-> "name", id |-> "Select", oid |-> "none"]
f_src == <<SelectCall, SelectCall>>
Combos == (1..DomN) \X (1..DomM)
Singles == {<<a>> : a \in 1..DomN}

\* "isinstance(n, ast.Call) and isinstance(n.func, ast.Name) and n.func.id in
\* known_ops".
IsOpCall_anycallee(n) == n.id \in known_ops

IsOpCall(n) == n.callee = "name" /\ n.id \in known_ops

\* get_user_oid: the string of the 'oid' keyword, None without one; a value that
\* is not a string literal raises.
get_user_oid_lenient(n) == [raised |-> FALSE, oid |-> IF n.oid = "str" THEN "str" ELSE "none"]

get_user_oid(n) == [raised |-> n.oid = "expr", oid |-> IF n.oid = "str" THEN "str" ELSE "none"]

\* strategy.process_op(gen, op_name, oid) for the k-th call site: the name to
\* substitute, the static id and the callable.
process_op(strat, op_name, oid, k) ==
    [new_op_name |-> NewOpNames[k], sid |-> k, op |-> OpOf(strat, op_name, k, oid)]

\* The preorder walk of compile_func from node i on: a call of a known operator
\* gets its callee renamed and the compiled operator bound to the new name;
\* every other node is left as it is.
RECURSIVE Rewrite(_, _, _, _, _)
Rewrite(nodes, i, strat, hs, acc) ==
    IF i > Len(nodes) \/ acc.raised THEN acc
    ELSE IF ~IsOpCall(nodes[i])
    THEN Rewrite(nodes, i + 1, strat, hs, [acc EXCEPT !.body = Append(@, nodes[i])])
    ELSE IF get_user_oid(nodes[i]).raised THEN [acc EXCEPT !.raised = TRUE]
    ELSE LET p == process_op(strat, nodes[i].id, get_user_oid(nodes[i]).oid,
                             Len(acc.ops) + 1)
         IN  Rewrite(nodes, i + 1, strat, hs,
                     [acc EXCEPT !.body = Append(@, [nodes[i] EXCEPT !.id = p.new_op_name]),
                                 !.ops = Append(@, [name |-> p.new_op_name,
                                                    f |-> compile_op(p.op, hs)])])

\* compile_func: the compiled function holds the rewritten body and the
\* namespace entries of its operators (and, for reference, the strategy
\* instance and the hook list it was compiled against); an 'oid' that is not a
\* string literal ends the compilation with an exception.
compile_func(fn, strat, hs) ==
    Only({[raised |-> r.raised,
           fn |-> IF r.raised THEN Null
                  ELSE [none |-> FALSE, strategy |-> strat, hooks |-> hs,
                        ops |-> r.ops, body |-> r.body]]
             : r \in {Rewrite(fn, 1, strat, hs,
                              [raised |-> FALSE, body |-> <<>>, ops |-> <<>>])}})

\* "if self._compiled_func is None: self._compiled_func = compile_func(...)".
Compiled(g, compiled, hs) ==
    IF compiled[g] = Null THEN compile_func(func[g], strategy[g], hs[g])
    ELSE [raised |-> FALSE, fn |-> compiled[g]]

\* ------------------------------------------------- running the function
Min(a, b) == IF a < b THEN a ELSE b

RECURSIVE ExecOps(_, _, _, _, _, _)
ExecOps(i, n, ops, st, picks, acc) ==
    IF i > n \/ acc.raised THEN [st |-> st, acc |-> acc]
    ELSE Only({ExecOps(i + 1, n, ops, r.st, picks,
                       [vals |-> IF r.raised THEN acc.vals ELSE Append(acc.vals, r.retval),
                        events |-> acc.events \o r.events,
                        last_op |-> r.events,
                        raised |-> r.raised])
                  : r \in {Invoke(ops[i].f, Doms[i], st, picks[i])}})

\* How a run of the function ends once its operator calls ended as x.
OutcomeOf(x, args) ==
    IF x.acc.raised THEN "err"
    ELSE IF x.acc.vals \in args.skips THEN "skip"
    ELSE IF x.acc.vals \in args.errs THEN "err"
    ELSE "val"

\* One run of the compiled function c (whose operators are bound to strategy
\* instance c.strategy, whose state is st): the strategy state after it, how
\* it ended and the value it returned.
RunCompiled(c, args, st, picks) ==
    Only({[st |-> x.st, outcome |-> OutcomeOf(x, args), value |-> x.acc.vals,
           events |-> x.acc.events, last_op |-> x.acc.last_op]
             : x \in {ExecOps(1, Min(args.length, Len(c.ops)), c.ops, st, picks,
                              [vals |-> <<>>, events |-> <<>>, last_op |-> <<>>,
                               raised |-> FALSE])}})

\* Calling a null compiled function runs nothing.
NoRun == [st |-> NoStrategy, outcome |-> "err", value |-> <<>>, events |-> <<>>,
          last_op |-> <<>>]

\* DefaultTracer.after_op: the operator records hook t received in a run.
TraceOf(events, t) ==
    LET mine == SelectSeq(events, LAMBDA e : e.e = "after_op" /\ e.h = t)
    IN  [i \in 1..Len(mine) |->
            [op_name |-> "Select", sid |-> mine[i].sid, retval |-> mine[i].retval]]

\* The arguments of the function: the combinations it skips and fails on.
AllArgs == [length : {2}, skips : {S \in SUBSET Combos : Cardinality(S) <= MaxSkips},
            errs : {{}} \cup {{c} : c \in Combos}]
PlainArgs == [length |-> 1, skips |-> {}, errs |-> {}]
ShortArgs == {PlainArgs, [length |-> 1, skips |-> {<<1>>}, errs |-> {}],
              [length |-> 1, skips |-> {}, errs |-> {<<DomN>>}]}

\* How a run that did not return a value shows to the caller.
RaisedBy(outcome) ==
    IF outcome = "val" THEN "none"
    ELSE IF outcome = "skip" THEN "ExceptionAsContinue" ELSE "Error"

\* ------------------------------------------------------------- generator()
\* The keywords generator() allows, and the ones the consumer may pass.
allowed_kwargs == {"strategy", "name", "group", "metadata"}
Keywords == allowed_kwargs \cup {"colour"}

\* The positional arguments the consumer may pass: functions and other values.
PosArgs == UNION {[1..n -> {"func", "other"}] : n \in 0..MaxPos}

\* The condition of generator()'s assert.
Accepts_anykeyword(args, kws) ==
    \/ Len(args) = 1 /\ kws = {} /\ args[1] = "func"
    \/ Len(args) = 0 /\ kws # {}

Accepts(args, kws) ==
    \/ Len(args) = 1 /\ Cardinality(kws) = 0 /\ args[1] = "func"
    \/ Len(args) = 0 /\ Cardinality(kws) > 0 /\ kws \subseteq allowed_kwargs

\* The values the consumer passes with the keywords, and Generator.__init__'s
\* defaults for the ones left out.
KwStrategy(kws) ==
    [name |-> IF "strategy" \in kws THEN "randomized" ELSE "dfs", inst |-> 0]
KwName(kws) == IF "name" \in kws THEN "N" ELSE NoName
KwGroup(kws) == IF "group" \in kws THEN "G" ELSE NoGroup

\* generator(*args, **kwargs): the assert, then Generator(args[0]) for the one
\* positional argument, else the wrapper that holds the keywords.
Decorate(args, kws) ==
    IF Accepts(args, kws) /\ Len(args) = 1
    THEN New("generator", f_src, [name |-> "dfs", inst |-> 0], NoName, NoGroup, kws, args)
    ELSE /\ Quiet /\ nops < MaxOps
         /\ nops' = nops + 1
         /\ last' = [Called("generator", 0,
                            IF Accepts(args, kws) THEN "none" ELSE "AssertionError",
                            FALSE, 0)
                         EXCEPT !.note = IF Accepts(args, kws) THEN "wrapper" ELSE "",
                                !.kw = kws, !.args = args]
         /\ UNCHANGED <<ngen, func, strategy, compiled_func, group, hooks,
                        group_registry, name_registry, nstrat, sstate, ntracer,
                        cur_trace, hraise, en, log, op_events, bi>>

\* wrapper(func), on the wrapper generator() just returned:
\* "return Generator(func, **kwargs)".
ApplyWrapper ==
    /\ last.op = "generator" /\ last.note = "wrapper"
    /\ New("wrapper", f_src, KwStrategy(last.kw), KwName(last.kw), KwGroup(last.kw),
           last.kw, <<"func">>)

\* -------------------------------------------------------- Generator.__call__
\* The direct call: compiles when the compiled function is null, then runs the
\* compiled function once.  Under the exhaustive strategy a direct call takes
\* the first alternative of every choice point and leaves the exploration state
\* of an enumeration as it is.
Call(g, args, picks) ==
    /\ Quiet /\ g \in 1..ngen /\ nops < MaxOps
    /\ \E k \in {Compiled(g, compiled_func, hooks)} :
       \E r \in {IF k.raised THEN NoRun
                 ELSE RunCompiled(k.fn, args, s_init(sstate[k.fn.strategy]), picks)} :
        /\ nops' = nops + 1
        /\ compiled_func' = [compiled_func EXCEPT ![g] = k.fn]
        /\ op_events' = IF k.raised THEN op_events ELSE r.last_op
        /\ cur_trace' = cur_trace \o TraceOf(r.events, en.tracer)
        /\ last' = [Called("call", g, IF k.raised THEN "Exception" ELSE RaisedBy(r.outcome),
                           FALSE, 0)
                        EXCEPT !.value = IF r.outcome = "val" THEN r.value ELSE <<>>,
                               !.note = IF k.raised THEN "not compiled"
                                        ELSE IF compiled_func[g] = Null THEN "compiled"
                                        ELSE "cached"]
        /\ UNCHANGED <<ngen, func, strategy, group, hooks, group_registry,
                       name_registry, nstrat, sstate, ntracer, hraise, en, log, bi>>

\* --------------------------------------------------------- generate / trace
\* "self.strategy.init()" at the start of generate.
InitStrategy_skip(g) == sstate

InitStrategy(g) == [sstate EXCEPT ![strategy[g]] = s_init(@)]

NoEnum == [pc |-> "none", kind |-> "generate", g |-> 0, args |-> PlainArgs,
           tracer |-> 0, out |-> <<>>, hooks0 |-> [x \in Gens |-> <<>>], runs |-> 0,
           prev |-> <<>>, repeats |-> FALSE]

L(e, h) == [e |-> e, h |-> h]

\* "for h in self.hooks: h.<e>(...)": one event per hook, in list order.
ForHooks(hs, e) == [i \in 1..Len(hs) |-> L(e, hs[i])]

\* g.generate(*args) / g.trace(*args): the iterator is created; none of its
\* code runs before the first value is asked for.
StartEnum(g, kind, args) ==
    /\ Quiet /\ g \in 1..ngen /\ nops < MaxOps
    /\ nops' = nops + 1
    /\ kind = "trace" => ntracer < MaxTraces
    /\ en' = [pc |-> "created", kind |-> kind, g |-> g, args |-> args, tracer |-> 0,
              out |-> <<>>, hooks0 |-> hooks, runs |-> 0,
              prev |-> IF en.pc = "done" THEN en.out ELSE <<>>,
              repeats |-> /\ en.pc = "done" /\ en.g = g /\ en.args = args
                          /\ en.kind = kind /\ en.hooks0 = hooks]
    /\ log' = <<>>
    /\ last' = Called(kind, g, "none", FALSE, 0)
    /\ UNCHANGED <<ngen, strategy, compiled_func, group, hooks, group_registry,
                   name_registry, func, nstrat, sstate, ntracer, cur_trace, hraise,
                   op_events, bi>>

\* The first next(): trace() creates its tracer and registers it (with group
\* propagation); generate() compiles when the compiled function is null,
\* issues init to the hooks and to the strategy and enters its loop.  When the
\* compilation raises, generate ends there.
First ==
    LET g == en.g
        t == IF en.kind = "trace" THEN NumHooks + ntracer + 1 ELSE 0
        hooks1 == IF t # 0 THEN RegisteredHooks(g, <<t>>, TRUE) ELSE hooks
        compiled1 == IF t # 0 THEN RegisteredCompiled(g, TRUE) ELSE compiled_func
    IN  /\ en.pc = "created"
        /\ \E k \in {Compiled(g, compiled1, hooks1)} :
            /\ hooks' = hooks1
            /\ compiled_func' = [compiled1 EXCEPT ![g] = k.fn]
            /\ ntracer' = IF t # 0 THEN ntracer + 1 ELSE ntracer
            /\ cur_trace' = IF t # 0 THEN <<>> ELSE cur_trace
            /\ sstate' = IF k.raised THEN sstate ELSE InitStrategy(g)
            /\ log' = IF k.raised THEN <<>>
                      ELSE ForHooks(hooks1[g], "init") \o <<L("s_init", 0)>>
            /\ en' = [en EXCEPT !.pc = IF k.raised THEN "failed" ELSE "loop",
                                !.tracer = t, !.hooks0 = hooks]
            /\ last' = Called("next", g, IF k.raised THEN "Exception" ELSE "none", FALSE, 0)
        /\ UNCHANGED <<ngen, func, strategy, group, group_registry, name_registry,
                       nstrat, hraise, op_events, nops, bi>>

\* The loop test succeeded (is_finished() is true): finish is issued to the
\* strategy and to the hooks and generate ends; trace() then deregisters its
\* tracer (with group propagation), which may raise.
LoopFinish ==
    LET g == en.g
        d == IF en.kind = "trace" THEN Deregistered(g, en.tracer, TRUE)
             ELSE [raised |-> "none", hooks |-> hooks, compiled_func |-> compiled_func]
    IN  /\ en.pc = "loop"
        /\ is_finished(sstate[strategy[g]])
        /\ sstate' = [sstate EXCEPT ![strategy[g]] = s_finish(@)]
        /\ log' = log \o <<L("s_finish", 0)>> \o ForHooks(hooks[g], "finish")
        /\ hooks' = d.hooks
        /\ compiled_func' = d.compiled_func
        /\ en' = [en EXCEPT !.pc = IF d.raised = "none" THEN "done" ELSE "failed"]
        /\ last' = Called("next", g, d.raised, FALSE, 0)
        /\ UNCHANGED <<ngen, strategy, group, group_registry, name_registry, func,
                       nstrat, ntracer, cur_trace, hraise, op_events, nops, bi>>

\* The run returned a value: generate yields it and is suspended there.
Yielded(g, s, begun) ==
    [sstate |-> s, log |-> begun \o <<L("yield", 0)>>, pc |-> "yielded", raised |-> "none"]

\* The run raised ExceptionAsContinue: "except ExceptionAsContinue: pass", then
\* finish_run of the strategy and of the hooks, and the loop goes on.
Skipped_propagates(g, s, begun) ==
    [sstate |-> s, log |-> begun \o <<L("raise", 0)>>, pc |-> "failed",
     raised |-> "ExceptionAsContinue"]

Skipped(g, s, begun) ==
    [sstate |-> [s EXCEPT ![strategy[g]] = s_finish_run(@)],
     log |-> begun \o <<L("skip", 0), L("s_finish_run", 0)>>
                   \o ForHooks(hooks[g], "finish_run"),
     pc |-> "loop", raised |-> "none"]

\* The run raised any other exception exc: it leaves generate, which is over.
Failed_swallowed(g, s, begun, exc) ==
    [sstate |-> [s EXCEPT ![strategy[g]] = s_finish_run(@)],
     log |-> begun \o <<L("raise", 0), L("s_finish_run", 0)>>
                   \o ForHooks(hooks[g], "finish_run"),
     pc |-> "loop", raised |-> "none"]

Failed(g, s, begun, exc) ==
    [sstate |-> s, log |-> begun \o <<L("raise", 0)>>, pc |-> "failed", raised |-> exc]

\* "for h in self.hooks: h.init_run(args, kwargs)": the hooks told of the run.
HooksInitRun_none(g) == <<>>

HooksInitRun(g) == hooks[g]

\* The log after init_run of the hooks and "self.strategy.init_run()".
Begun_hooksonly(g) == log \o ForHooks(HooksInitRun(g), "init_run")

Begun(g) == log \o ForHooks(HooksInitRun(g), "init_run") \o <<L("s_init_run", 0)>>

\* DefaultTracer.init_run: the tracer of the active trace() starts a new trace.
TracerInitRun(g) == IF en.tracer \in Range(HooksInitRun(g)) THEN <<>> ELSE cur_trace

\* One pass of the loop body up to the yield: init_run to the hooks and the
\* strategy, then the compiled function.  A value is yielded (generate is
\* suspended there); the skip signal is swallowed and finish_run is issued; any
\* other exception leaves generate.  A null compiled function is not callable.
LoopRun(picks) ==
    /\ en.pc = "loop"
    /\ ~is_finished(sstate[strategy[en.g]])
    /\ sstate[strategy[en.g]].kind = "rand" => en.runs < MaxRandRuns
    /\ \E g \in {en.g} : \E c \in {compiled_func[en.g]} :
       \E s1 \in {[sstate EXCEPT ![strategy[g]] = s_init_run(@)]} :
       \E r \in {IF c = Null THEN NoRun
                 ELSE RunCompiled(c, en.args, s1[c.strategy], picks)} :
       \E tr \in {TracerInitRun(g) \o TraceOf(r.events, en.tracer)} :
       \E b \in {IF c = Null THEN Failed(g, s1, Begun(g), "TypeError")
                 ELSE IF r.outcome = "val"
                 THEN Yielded(g, [s1 EXCEPT ![c.strategy] = r.st], Begun(g))
                 ELSE IF r.outcome = "skip"
                 THEN Skipped(g, [s1 EXCEPT ![c.strategy] = r.st], Begun(g))
                 ELSE Failed(g, [s1 EXCEPT ![c.strategy] = r.st], Begun(g), "Error")} :
          /\ sstate' = b.sstate
          /\ log' = b.log
          /\ cur_trace' = tr
          /\ op_events' = IF c = Null THEN op_events ELSE r.last_op
          /\ en' = [en EXCEPT !.pc = b.pc, !.runs = @ + 1,
                       !.out = IF b.pc = "yielded"
                               THEN Append(@, [value |-> r.value,
                                               trace |-> IF en.kind = "trace" THEN tr
                                                         ELSE <<>>,
                                               ops |-> SelectSeq(r.events,
                                                          LAMBDA e : e.e = "op")])
                               ELSE @]
          /\ last' = [Called("next", g, b.raised, FALSE, 0)
                          EXCEPT !.value = IF b.pc = "yielded" THEN r.value ELSE <<>>]
    /\ UNCHANGED <<ngen, strategy, compiled_func, group, hooks, group_registry,
                   name_registry, func, nstrat, ntracer, hraise, nops, bi>>

\* next() on an iterator suspended at its yield: finish_run is issued to the
\* strategy and to the hooks, and the loop test follows.
Resume ==
    LET g == en.g
    IN  /\ en.pc = "yielded"
        /\ sstate' = [sstate EXCEPT ![strategy[g]] = s_finish_run(@)]
        /\ log' = log \o <<L("s_finish_run", 0)>> \o ForHooks(hooks[g], "finish_run")
        /\ en' = [en EXCEPT !.pc = "loop"]
        /\ last' = Called("next", g, "none", FALSE, 0)
        /\ UNCHANGED <<ngen, strategy, compiled_func, group, hooks, group_registry,
                       name_registry, func, nstrat, ntracer, cur_trace, hraise,
                       op_events, nops, bi>>

\* ------------------------------------------- Network.get_batch_iterator
\* The input of get_batch_iterator: a finite sequence of graphs, each given by
\* len(g['nodes']); a graph is identified by its position in the input.
GraphIters == UNION {[1..n -> 0..MaxGraphNodes] : n \in 0..MaxGraphs}
BatchSizes == 0..MaxBatchSize

NoBatches == [pc |-> "none", graph_iter |-> <<>>, batch_size |-> 0, i |-> 0,
              node_offset |-> 0, cur_batch |-> <<>>, out |-> <<>>]

\* "yield len(cur_batch), self.define_batch(cur_batch, is_training)": the
\* count and the batch made of the graphs cur_batch holds.
Batch(cur_batch) == [num_graphs |-> Len(cur_batch), graphs |-> cur_batch]

\* "for g in graph_iter" from the next graph on, up to the next yield: every
\* graph is appended to cur_batch and its nodes are added to node_offset; a
\* batch is yielded when node_offset exceeds batch_size; after the last graph a
\* non-empty cur_batch is yielded once more.
RECURSIVE BatchLoop(_)
BatchLoop(b) ==
    IF b.i = Len(b.graph_iter)
    THEN IF Len(b.cur_batch) > 0
         THEN [b EXCEPT !.pc = "tail", !.out = Append(@, Batch(b.cur_batch))]
         ELSE [b EXCEPT !.pc = "done"]
    ELSE Only({IF c.node_offset > c.batch_size
               THEN [c EXCEPT !.pc = "yielded", !.out = Append(@, Batch(c.cur_batch))]
               ELSE BatchLoop(c)
                 : c \in {[b EXCEPT !.i = @ + 1,
                                    !.cur_batch = Append(@, b.i + 1),
                                    !.node_offset = @ + b.graph_iter[b.i + 1]]}})

\* get_batch_iterator(graph_iter, batch_size): the iterator is created; none
\* of its code runs before the first batch is asked for.
StartBatches(graphs, batch_size) ==
    /\ bi.pc = "none"
    /\ bi' = [NoBatches EXCEPT !.pc = "created", !.graph_iter = graphs,
                               !.batch_size = batch_size]
    /\ last' = Called("get_batch_iterator", 0, "none", FALSE, 0)
    /\ UNCHANGED <<ngen, func, strategy, compiled_func, group, hooks, group_registry,
                   name_registry, nstrat, sstate, ntracer, cur_trace, hraise, en, log,
                   op_events, nops>>

\* next() on the iterator: from its start with "node_offset = 0; cur_batch =
\* []", from the yield in the loop with "node_offset = 0", and from the yield
\* after the loop to the end.
NextBatch ==
    /\ bi.pc \in {"created", "yielded", "tail"}
    /\ bi' = IF bi.pc = "created"
             THEN BatchLoop([bi EXCEPT !.node_offset = 0, !.cur_batch = <<>>])
             ELSE IF bi.pc = "yielded" THEN BatchLoop([bi EXCEPT !.node_offset = 0])
             ELSE [bi EXCEPT !.pc = "done"]
    /\ last' = Called("next_batch", 0, "none", FALSE, 0)
    /\ UNCHANGED <<ngen, func, strategy, compiled_func, group, hooks, group_registry,
                   name_registry, nstrat, sstate, ntracer, cur_trace, hraise, en, log,
                   op_events, nops>>

\* ------------------------------------------------------------ specification
Init ==
    /\ ngen = 0
    /\ func = [g \in Gens |-> <<>>]
    /\ strategy = [g \in Gens |-> 0]
    /\ compiled_func = [g \in Gens |-> Null]
    /\ group = [g \in Gens |-> NoGroup]
    /\ hooks = [g \in Gens |-> <<>>]
    /\ group_registry = [n \in GroupNames |-> <<>>]
    /\ name_registry = [n \in Names |-> 0]
    /\ nstrat = 0
    /\ sstate = [i \in StratIds |-> NoStrategy]
    /\ ntracer = 0
    /\ cur_trace = <<>>
    /\ hraise = [h \in UserHooks |-> "none"]
    /\ en = NoEnum
    /\ log = <<>>
    /\ op_events = <<>>
    /\ last = Called("none", 0, "none", FALSE, 0)
    /\ bi = NoBatches
    /\ nops = 0

HookArgs == {<<>>} \cup {<<h>> : h \in UserHooks}

Next ==
    \/ \E arg \in StrategyArgs, grp \in GroupNames \cup {NoGroup} : Construct(f_src, arg, NoName, grp)
    \/ \E g \in Gens, arg \in StrategyArgs, b \in BOOLEAN : SetStrategy(g, arg, b)
    \/ \E g \in Gens, hs \in HookArgs, b \in BOOLEAN : RegisterHooks(g, hs, b)
    \/ \E g \in Gens, h \in HookIds, b \in BOOLEAN : DeregisterHook(g, h, b)
    \/ \E g \in Gens, a \in ShortArgs, picks \in Combos : Call(g, a, picks)
    \/ \E g \in Gens, k \in {"generate", "trace"}, a \in ShortArgs : StartEnum(g, k, a)
    \/ First
    \/ LoopFinish
    \/ \E picks \in Combos : LoopRun(picks)
    \/ Resume

Spec == Init /\ [][Next]_vars

\* Enumerations of the two-site function, over every argument, by one generator
\* configured before the enumeration starts; a finished enumeration may be
\* repeated with the same arguments.
NextEnum ==
    \/ \E arg \in {a \in StrategyArgs : a.name \in {"dfs", "randomized"}},
          grp \in GroupNames \cup {NoGroup} : ngen = 0 /\ Construct(f_src, arg, NoName, grp)
    \/ \E g \in Gens, h \in UserHooks : en.pc = "none" /\ RegisterHooks(g, <<h>>, TRUE)
    \/ \E g \in Gens, k \in {"generate", "trace"}, a \in AllArgs :
          /\ en.pc = "none" \/ (en.pc = "done" /\ a = en.args /\ g = en.g /\ k = en.kind)
          /\ StartEnum(g, k, a)
    \/ First
    \/ LoopFinish
    \/ \E picks \in Combos : LoopRun(picks)
    \/ Resume

SpecEnum == Init /\ [][NextEnum]_vars

\* generate enumerations by one generator whose strategy is exhaustive, random
\* or an instance of the consumer's with an empty exploration space.
InitLife ==
    /\ ngen = 0
    /\ func = [g \in Gens |-> <<>>]
    /\ strategy = [g \in Gens |-> 0]
    /\ compiled_func = [g \in Gens |-> Null]
    /\ group = [g \in Gens |-> NoGroup]
    /\ hooks = [g \in Gens |-> <<>>]
    /\ group_registry = [n \in GroupNames |-> <<>>]
    /\ name_registry = [n \in Names |-> 0]
    /\ nstrat = 1
    /\ sstate = [i \in StratIds |-> IF i = 1 THEN EmptyStrategy ELSE NoStrategy]
    /\ ntracer = 0
    /\ cur_trace = <<>>
    /\ hraise = [h \in UserHooks |-> "none"]
    /\ en = NoEnum
    /\ log = <<>>
    /\ op_events = <<>>
    /\ last = Called("none", 0, "none", FALSE, 0)
    /\ bi = NoBatches
    /\ nops = 0

NextLife ==
    \/ \E arg \in StrategyArgs : ngen = 0 /\ Construct(f_src, arg, NoName, NoGroup)
    \/ \E g \in Gens, h \in UserHooks : en.pc = "none" /\ RegisterHooks(g, <<h>>, TRUE)
    \/ \E g \in Gens, a \in AllArgs : en.pc = "none" /\ StartEnum(g, "generate", a)
    \/ First
    \/ LoopFinish
    \/ \E picks \in Combos : LoopRun(picks)
    \/ Resume

SpecLife == InitLife /\ [][NextLife]_vars

\* Generators constructed with and without a name and a group, their
\* strategies set, and direct calls.
NextConfig ==
    \/ \E arg \in StrategyArgs, name \in Names \cup {NoName},
          grp \in GroupNames \cup {NoGroup} : Construct(f_src, arg, name, grp)
    \/ \E g \in Gens, arg \in StrategyArgs, b \in BOOLEAN : SetStrategy(g, arg, b)
    \/ \E g \in Gens, picks \in Combos : Call(g, PlainArgs, picks)

SpecConfig == Init /\ [][NextConfig]_vars

\* Generators made with generator(), in all its forms.
NextDecorator ==
    \/ \E args \in PosArgs, kws \in SUBSET Keywords : Decorate(args, kws)
    \/ ApplyWrapper

SpecDecorator == Init /\ [][NextDecorator]_vars

\* One exhaustive generator over any function of Funcs: hooks registered and
\* direct calls.
NextCompile ==
    \/ \E fn \in Funcs : ngen = 0 /\ Construct(fn, [name |-> "dfs", inst |-> 0],
                                                NoName, NoGroup)
    \/ \E g \in Gens, h \in UserHooks : RegisterHooks(g, <<h>>, TRUE)
    \/ \E g \in Gens, n \in 1..Len(Doms) :
          Call(g, [PlainArgs EXCEPT !.length = n], <<1, 1>>)

SpecCompile == Init /\ [][NextCompile]_vars

\* One generator over a function of one or two Select calls, with or without
\* an 'oid': hooks registered, direct calls, and a generate or trace
\* enumeration.
OidFuncs == {fn \in Funcs : Len(fn) \in 1..2 /\ \A i \in 1..Len(fn) : fn[i].id = "Select"}

NextOid ==
    \/ \E fn \in OidFuncs, arg \in {a \in StrategyArgs : a.name \in {"dfs", "randomized"}} :
          ngen = 0 /\ Construct(fn, arg, NoName, NoGroup)
    \/ \E g \in Gens, h \in UserHooks : en.pc = "none" /\ RegisterHooks(g, <<h>>, TRUE)
    \/ \E g \in Gens, n \in 1..Len(Doms), picks \in Combos :
          en.pc = "none" /\ Call(g, [PlainArgs EXCEPT !.length = n], picks)
    \/ \E g \in Gens, k \in {"generate", "trace"} :
          en.pc = "none" /\ StartEnum(g, k, [PlainArgs EXCEPT !.length = Len(Doms)])
    \/ First
    \/ LoopFinish
    \/ \E picks \in Combos : LoopRun(picks)
    \/ Resume

SpecOid == Init /\ [][NextOid]_vars

\* Batches drawn from any input, for any batch size.
NextBatches ==
    \/ \E graphs \in GraphIters, size \in BatchSizes : StartBatches(graphs, size)
    \/ NextBatch

SpecBatch == Init /\ [][NextBatches]_vars

\* Groups built and changed with the default group propagation only.
NextGroup ==
    \/ \E arg \in StrategyArgs, grp \in GroupNames \cup {NoGroup} : Construct(f_src, arg, NoName, grp)
    \/ \E g \in Gens, hs \in HookArgs : RegisterHooks(g, hs, TRUE)
    \/ \E g \in Gens, h \in UserHooks : DeregisterHook(g, h, TRUE)

SpecGroup == Init /\ [][NextGroup]_vars

\* Single invocations of compiled operators whose hooks may raise.
InitOp ==
    /\ ngen = 0
    /\ func = [g \in Gens |-> <<>>]
    /\ strategy = [g \in Gens |-> 0]
    /\ compiled_func = [g \in Gens |-> Null]
    /\ group = [g \in Gens |-> NoGroup]
    /\ hooks = [g \in Gens |-> <<>>]
    /\ group_registry = [n \in GroupNames |-> <<>>]
    /\ name_registry = [n \in Names |-> 0]
    /\ nstrat = 0
    /\ sstate = [i \in StratIds |-> NoStrategy]
    /\ ntracer = 0
    /\ cur_trace = <<>>
    /\ hraise \in [UserHooks -> {"none", "before", "after"}]
    /\ en = NoEnum
    /\ log = <<>>
    /\ op_events = <<>>
    /\ last = Called("none", 0, "none", FALSE, 0)
    /\ bi = NoBatches
    /\ nops = 0

NextOp ==
    \/ \E arg \in {a \in StrategyArgs : a.name \in {"dfs", "randomized"}} :
          ngen = 0 /\ Construct(f_src, arg, NoName, NoGroup)
    \/ \E g \in Gens, h \in UserHooks : RegisterHooks(g, <<h>>, TRUE)
    \/ \E g \in Gens, n \in 1..Len(Doms), picks \in Combos :
          Call(g, [PlainArgs EXCEPT !.length = n], picks)

SpecOp == InitOp /\ [][NextOp]_vars

\* ------------------------------------------------------------------ claims
\* The compiled function of g was compiled against g's current strategy
\* instance and current hook list.
UpToDate(g) ==
    /\ compiled_func[g].strategy = strategy[g]
    /\ compiled_func[g].hooks = hooks[g]

\* C1: in every reachable state a generator's compiled function is non-null
\* only if it was compiled against the generator's current strategy and hook
\* list (every change of either left it null until the next compilation), and
\* a direct call always ends with a non-null compiled function that was
\* compiled against the current strategy and hooks.
C1_CacheValid ==
    /\ \A g \in 1..ngen : compiled_func[g] # Null => UpToDate(g)
    /\ last.op = "call" => compiled_func[last.g] # Null /\ UpToDate(last.g)

\* C1 witness: a generator that an enumeration had compiled and run was
\* changed, and the direct call that followed compiled it again.
C1_Witness ==
    /\ en.pc = "yielded"
    /\ last.op = "call" /\ last.g = en.g /\ last.note = "compiled"
    /\ compiled_func[en.g].strategy # 1

\* The values an enumeration yielded, in order.
Values(out) == [i \in 1..Len(out) |-> out[i].value]

\* An enumeration of the two-site function that never skips nor fails, under
\* the exhaustive strategy, driven to its end.
ExhaustedPlain ==
    /\ en.pc = "done"
    /\ en.args = [length |-> 2, skips |-> {}, errs |-> {}]
    /\ sstate[strategy[en.g]].kind = "dfs"

\* C2: the exhaustive enumeration of a function making two Select calls over
\* domains of DomN and DomM elements, driven to exhaustion, yields exactly
\* DomN * DomM values, each combination of choices exactly once, in the same
\* order when the enumeration is repeated, and it ended with is_finished() true.
C2_CrossProduct ==
    ExhaustedPlain =>
        /\ Len(en.out) = DomN * DomM
        /\ Range(Values(en.out)) = Combos
        /\ \A i, j \in 1..Len(en.out) : en.out[i].value = en.out[j].value => i = j
        /\ en.repeats => Values(en.out) = Values(en.prev)
        /\ is_finished(sstate[strategy[en.g]])

\* C2 witness: a repeated exhaustive enumeration that ended after DomN * DomM values.
C2_Witness ==
    ExhaustedPlain /\ en.repeats /\ Len(en.out) = DomN * DomM /\ hooks[en.g] # <<>>

\* The number of entries e of a log.
Count(lg, e) == Cardinality({i \in 1..Len(lg) : lg[i].e = e})

\* Lexicographic order of the choice combinations: the order the exhaustive
\* strategy visits them in.
LexLess(a, b) ==
    \E i \in 1..Len(a) : a[i] < b[i] /\ \A j \in 1..(i - 1) : a[j] = b[j]

\* The log continues at position p with the events es, as far as it reaches.
ContinuesWith(p, es) ==
    \A i \in 1..Len(es) : p + i <= Len(log) => log[p + i] = es[i]

\* The hook list of the enumerating generator while its enumeration runs (the
\* consumer changing nothing meanwhile): the list it had when the enumeration
\* started, with the tracer appended by trace().
EnumHooks ==
    IF en.tracer # 0 THEN en.hooks0[en.g] \o <<en.tracer>> ELSE en.hooks0[en.g]

\* The first lifecycle event of a run of the active enumeration.
RunStart ==
    IF EnumHooks = <<>> THEN L("s_init_run", 0) ELSE L("init_run", EnumHooks[1])

\* C3: in a generate / trace enumeration the skip signal never reaches the
\* consumer; every run that neither skipped nor failed yielded its value, in run
\* order, so an exhaustive enumeration of N combinations of which k skip yields
\* exactly the N - k others; and every skipped run is followed by finish_run of
\* the strategy and of every hook, and then by the next run (or, when the
\* strategy is finished, by finish).
C3_SkipOmitsRun ==
    /\ last.op = "next" => last.raised # "ExceptionAsContinue"
    /\ en.pc # "none" =>
          /\ Len(en.out) = Count(log, "yield")
          /\ Len(en.out) = en.runs - Count(log, "skip") - Count(log, "raise")
    /\ (en.pc = "done" /\ sstate[strategy[en.g]].kind = "dfs" /\ en.args.length = 2) =>
          /\ Len(en.out) = DomN * DomM - Cardinality(en.args.skips)
          /\ Range(Values(en.out)) = Combos \ en.args.skips
          /\ \A i, j \in 1..Len(en.out) :
                i < j => LexLess(en.out[i].value, en.out[j].value)
    /\ \A i \in 1..Len(log) : log[i].e = "skip" =>
          LET after == <<L("s_finish_run", 0)>> \o ForHooks(EnumHooks, "finish_run")
              n == Len(after)
          IN  /\ i + n <= Len(log)
              /\ ContinuesWith(i, after)
              /\ i + n < Len(log) => log[i + n + 1] \in {RunStart, L("s_finish", 0)}

\* C3 witness: an exhaustive enumeration with hooks ended after two of its runs
\* skipped and the others yielded.
C3_Witness ==
    /\ en.pc = "done" /\ sstate[strategy[en.g]].kind = "dfs"
    /\ en.args.errs = {} /\ Cardinality(en.args.skips) = 2
    /\ Count(log, "skip") = 2 /\ Len(en.out) = DomN * DomM - 2
    /\ hooks[en.g] # <<>>

\* C4: an exception other than the skip signal raised by a run reaches the
\* consumer as it is and ends the enumeration: the raise is the last lifecycle
\* event of the enumeration (no finish_run, no further run, no value, no
\* finish), whether or not the strategy is finished.
C4_ErrorAborts ==
    /\ \A i \in 1..Len(log) : log[i].e = "raise" => i = Len(log) /\ en.pc = "failed"
    /\ (last.op = "next" /\ last.raised = "Error") =>
          /\ en.pc = "failed" /\ Len(log) > 0 /\ log[Len(log)].e = "raise"
          /\ en.runs = Len(en.out) + Count(log, "skip") + 1

\* C4 witness: a run failed after a value had been yielded and while the
\* strategy had combinations left; the enumeration stayed ended.
C4_Witness ==
    /\ en.pc = "failed" /\ last.raised = "Error"
    /\ Len(en.out) >= 1
    /\ ~is_finished(sstate[strategy[en.g]])
    /\ sstate[strategy[en.g]].kind = "dfs"

\* The record a tracer keeps of one operator invocation.
OpRecord(ev) == [op_name |-> "Select", sid |-> ev.sid, retval |-> ev.retval]

\* C5: every pair yielded by trace() holds the value of a run and, as its trace,
\* exactly the operator calls of that same run (operator name, static id and
\* returned value, in call order), whose returned values are the choices the
\* value was built from; runs that skipped yielded no pair.
C5_TraceMatchesRun ==
    en.kind = "trace" =>
        /\ \A i \in 1..Len(en.out) :
              /\ en.out[i].trace = [j \in 1..Len(en.out[i].ops) |-> OpRecord(en.out[i].ops[j])]
              /\ Len(en.out[i].trace) = en.args.length
              /\ [j \in 1..Len(en.out[i].trace) |-> en.out[i].trace[j].retval]
                    = en.out[i].value
        /\ en.pc # "none" => Len(en.out) = en.runs - Count(log, "skip") - Count(log, "raise")

\* C5 witness: a trace() that yielded two pairs with different traces around a
\* skipped run.
C5_Witness ==
    /\ en.kind = "trace" /\ Len(en.out) >= 2 /\ Count(log, "skip") >= 1
    /\ en.out[1].trace # en.out[2].trace

\* C6: trace() registers its tracer when its enumeration starts, and once the
\* trace enumeration has ended the tracer is registered nowhere: every
\* generator's hook list is what it was before the call.
C6_TracerRemoved ==
    /\ (en.kind = "trace" /\ en.pc \in {"loop", "yielded"}) =>
          en.tracer \in Range(hooks[en.g])
    /\ (en.kind = "trace" /\ en.pc \in {"done", "failed"}) => hooks = en.hooks0

\* C7: a set_strategy call that returns leaves the target with a null compiled
\* function; with as_group on a grouped generator every member of the group has
\* the target's strategy instance and a null compiled function; with as_group
\* off, and for every generator outside the group, strategy and compiled
\* function are what they were before the call.
C7_SetStrategyFrame ==
    [][(last'.op = "set_strategy" /\ last'.raised = "none") =>
          LET g == last'.g
              members == IF last'.as_group /\ group[g] # NoGroup
                         THEN Range(group_registry[group[g]]) ELSE {g}
          IN  /\ \A m \in members : strategy'[m] = strategy'[g] /\ compiled_func'[m] = Null
              /\ \A m \in Gens \ members :
                    strategy'[m] = strategy[m] /\ compiled_func'[m] = compiled_func[m]
              /\ strategy'[g] \in 1..nstrat' /\ (strategy'[g] \in 1..nstrat \/ nstrat' = nstrat + 1)
      ]_vars

\* C7 witness: set_strategy('dfs' or 'randomized') with group propagation on a
\* group of two whose other member had a compiled function.
C7_Witness ==
    /\ last.op = "set_strategy" /\ last.raised = "none" /\ last.as_group
    /\ group[last.g] # NoGroup /\ Len(group_registry[group[last.g]]) = 2
    /\ \A m \in Range(group_registry[group[last.g]]) : strategy[m] = nstrat
    /\ nstrat = 2 /\ nops = 4

\* C8: as long as generators are only constructed into groups and hooks are only
\* registered and deregistered with the default group propagation, all members
\* of a group have the same hook list.
C8_GroupHooksEqual ==
    \A grp \in GroupNames : \A a, b \in Range(group_registry[grp]) : hooks[a] = hooks[b]

\* C9 as stated: a generator constructed into a group that has members has the
\* strategy instance that the existing members use; constructed into a group
\* without members (or into none) it has the one built from its own argument.
C9_AsStated ==
    (last.op = "construct" /\ last.raised = "none") =>
        LET g == last.g
        IN  IF group[g] # NoGroup /\ group_registry[group[g]] # <<g>>
            THEN \A m \in Range(group_registry[group[g]]) : strategy[g] = strategy[m]
            ELSE strategy[g] = last.h

\* C9: a generator constructed into a group that has members has the strategy
\* instance of the group's first member, whatever its own strategy argument
\* built; constructed into a group without members (or into none) it has the
\* one built from its own argument; a grouped generator is the group's last
\* member, the first one of a group that had none.
C9_InheritsFirst ==
    (last.op = "construct" /\ last.raised = "none") =>
        LET g == last.g
            grp == group[g]
        IN  /\ IF grp # NoGroup /\ group_registry[grp] # <<g>>
               THEN strategy[g] = strategy[group_registry[grp][1]]
               ELSE strategy[g] = last.h
            /\ grp # NoGroup => group_registry[grp][Len(group_registry[grp])] = g
            /\ compiled_func[g] = Null

\* C9 witness: a third generator joined a group whose two members had different
\* strategies, and has the first member's, not the one its argument built.
C9_Witness ==
    /\ last.op = "construct" /\ last.g = 3 /\ group_registry["G"] = <<1, 2, 3>>
    /\ strategy[2] # strategy[1] /\ strategy[3] = strategy[1] /\ strategy[3] # last.h

\* The positions of the events of kind e in the most recent operator invocation.
At(e) == {i \in 1..Len(op_events) : op_events[i].e = e}

\* C10: one invocation of an operator compiled with hooks h1..hn, n >= 1:
\* before_op of h1, h2, ... in registration order come first; the operator is
\* called at most once, and only after all n before_op; after_op of h1, h2, ...
\* in registration order follow it, each with the operator's return value; when
\* no hook raises there are exactly n before_op, one operator call and n
\* after_op, and the wrapper returns the operator's value; a hook that raises
\* is the last event of the invocation and the call ends with its exception.
C10_HookOrder ==
    LET hs == compiled_func[last.g].hooks
        n == Len(hs)
        ev == op_events
    IN  (last.op = "call" /\ n >= 1) =>
            /\ At("before_op") = 1..Cardinality(At("before_op"))
            /\ \A i \in At("before_op") : i <= n /\ ev[i].h = hs[i]
            /\ \A i \in At("op") : i = n + 1 /\ At("before_op") = 1..n
            /\ At("after_op") = (n + 2)..(n + 1 + Cardinality(At("after_op")))
            /\ \A i \in At("after_op") :
                  /\ At("op") = {n + 1} /\ i <= 2 * n + 1
                  /\ ev[i].h = hs[i - n - 1]
                  /\ ev[i].retval = ev[n + 1].retval
            /\ \A i, j \in 1..Len(ev) : ev[i].sid = ev[j].sid
            /\ \A i \in 1..Len(ev) :
                  (\/ ev[i].e = "before_op" /\ Raises(ev[i].h, "before")
                   \/ ev[i].e = "after_op" /\ Raises(ev[i].h, "after"))
                      => i = Len(ev) /\ last.raised = "Error"
            /\ last.raised = "none" =>
                  /\ Len(ev) = 2 * n + 1
                  /\ last.value[Len(last.value)] = ev[n + 1].retval
            /\ last.raised = "Error" =>
                  \/ ev[Len(ev)].e = "before_op" /\ Raises(ev[Len(ev)].h, "before")
                  \/ ev[Len(ev)].e = "after_op" /\ Raises(ev[Len(ev)].h, "after")

\* C10 witness: an operator compiled with two different hooks was invoked and
\* no hook raised.
C10_Witness ==
    /\ last.op = "call" /\ last.raised = "none"
    /\ Len(compiled_func[last.g].hooks) = 2
    /\ compiled_func[last.g].hooks[1] # compiled_func[last.g].hooks[2]
    /\ Len(op_events) = 5

\* The call nodes of a function that compile_func rewrites, in preorder.
OpCalls(fn) == SelectSeq(fn, IsOpCall)

\* The callable the strategy supplied for the k-th operator call site of g's
\* compiled function.
Supplied(g, k) ==
    process_op(compiled_func[g].strategy, OpCalls(func[g])[k].id,
               get_user_oid(OpCalls(func[g])[k]).oid, k).op

\* C11: an operator site compiled with an empty hook list is bound to the very
\* callable the strategy supplied, and one compiled with a non-empty hook list
\* to a different callable (a wrapper of the supplied one); hence a generator
\* whose hooks were all deregistered again has, once compiled, its operator
\* sites bound to the strategy's own callables.
C11_OpIdentity ==
    \A g \in 1..ngen : compiled_func[g] # Null =>
        \A k \in 1..Len(compiled_func[g].ops) :
            LET bound == compiled_func[g].ops[k].f
            IN  /\ compiled_func[g].hooks = <<>> => bound = Supplied(g, k)
                /\ compiled_func[g].hooks # <<>> =>
                      /\ bound # Supplied(g, k)
                      /\ bound = Wrapper(Supplied(g, k), compiled_func[g].hooks)
                /\ hooks[g] = <<>> => bound = Supplied(g, k)

\* C11 witness: a trace() compiled the function with its tracer and ended, which
\* left the generator without hooks, and the direct call that followed
\* compiled it again, unwrapped.
C11_Witness ==
    /\ en.kind = "trace" /\ en.pc = "done" /\ en.tracer # 0
    /\ last.op = "call" /\ last.g = en.g /\ last.note = "compiled"
    /\ hooks[en.g] = <<>>
    /\ Len(compiled_func[en.g].ops) = 2
    /\ compiled_func[en.g].ops[1].f = Supplied(en.g, 1)

\* The lifecycle events of one run that ended as o (a yield or a skip), for
\* hook list hs.
RunBlock(hs, o) ==
    ForHooks(hs, "init_run") \o <<L("s_init_run", 0), o, L("s_finish_run", 0)>>
        \o ForHooks(hs, "finish_run")

\* The lifecycle events of the runs that ended as os[i], os[i + 1], ...
RECURSIVE RunBlocks(_, _, _)
RunBlocks(hs, os, i) ==
    IF i > Len(os) THEN <<>> ELSE RunBlock(hs, os[i]) \o RunBlocks(hs, os, i + 1)

\* How the runs of the active enumeration ended, in order.
Outcomes == SelectSeq(log, LAMBDA x : x.e \in {"yield", "skip"})

\* C12: the lifecycle calls of a generate enumeration that was driven to its
\* end with no genuine exception are exactly: init of every hook (in list
\* order) and of the strategy; for every run, skipped or not, init_run of every
\* hook and of the strategy, the run, and finish_run of the strategy and of
\* every hook; and last finish of the strategy and of every hook.  finish is
\* issued only when is_finished() is true; with a strategy that is finished
\* right after init there is no run and finish follows init directly.
C12_Lifecycle ==
    /\ (en.kind = "generate" /\ en.pc = "done") =>
          /\ log = ForHooks(hooks[en.g], "init") \o <<L("s_init", 0)>>
                      \o RunBlocks(hooks[en.g], Outcomes, 1)
                      \o <<L("s_finish", 0)>> \o ForHooks(hooks[en.g], "finish")
          /\ Len(Outcomes) = en.runs
          /\ sstate[strategy[en.g]].kind = "empty" =>
                /\ en.runs = 0
                /\ log = ForHooks(hooks[en.g], "init") \o <<L("s_init", 0), L("s_finish", 0)>>
                            \o ForHooks(hooks[en.g], "finish")
    /\ Count(log, "s_finish") > 0 =>
          /\ is_finished(sstate[strategy[en.g]])
          /\ en.pc = "done"
          /\ Count(log, "s_finish") = 1 /\ Count(log, "s_init") = 1

\* C12 witness: an exhaustive generate enumeration with two different hooks
\* ended after runs that yielded and runs that skipped.
C12_Witness ==
    /\ en.kind = "generate" /\ en.pc = "done"
    /\ Len(hooks[en.g]) = 2 /\ hooks[en.g][1] # hooks[en.g][2]
    /\ Count(log, "skip") = 2 /\ Count(log, "yield") = DomN * DomM - 2

\* An enumeration whose strategy was finished right after init: no run, and
\* init directly followed by finish.
C12_ZeroRuns ==
    /\ en.kind = "generate" /\ en.pc = "done" /\ en.runs = 0
    /\ hooks[en.g] # <<>>
    /\ log = ForHooks(hooks[en.g], "init") \o <<L("s_init", 0), L("s_finish", 0)>>
                \o ForHooks(hooks[en.g], "finish")

\* C13: a deregister_hook(h) call on a generator whose own hook list does not
\* hold h raises ValueError and changes no hook list and no compiled function,
\* neither the target's nor any group member's.
C13_DeregisterMissing ==
    [][(last'.op = "deregister_hook" /\ last'.h \notin Range(hooks[last'.g])) =>
          /\ last'.raised = "ValueError"
          /\ hooks' = hooks
          /\ compiled_func' = compiled_func
          /\ strategy' = strategy
      ]_vars

\* C13 witness: deregister_hook(h) with group propagation raised on a generator
\* without h while another member of its group holds h, and still does.
C13_Witness ==
    /\ last.op = "deregister_hook" /\ last.raised = "ValueError" /\ last.as_group
    /\ last.h \notin Range(hooks[last.g])
    /\ group[last.g] # NoGroup
    /\ \E m \in Range(group_registry[group[last.g]]) : last.h \in Range(hooks[m])

\* The strategy identifiers make_strategy accepts.
ValidStrategy == {"instance", "randomized", "dfs"}

\* C14: set_strategy with an identifier that is neither a Strategy instance nor
\* 'randomized' nor 'dfs' raises and leaves the strategy and the compiled
\* function of every generator as they were; constructing a Generator with such
\* an identifier raises with no generator added to the name registry or to a
\* group (nothing is constructed); the identifiers that are accepted do not
\* raise.
C14_BadStrategy ==
    [][(last'.op \in {"set_strategy", "construct"}) =>
          IF last'.note \in ValidStrategy
          THEN last'.raised = "none"
          ELSE /\ last'.raised = "Exception"
               /\ strategy' = strategy /\ compiled_func' = compiled_func
               /\ nstrat' = nstrat /\ sstate' = sstate
               /\ name_registry' = name_registry /\ group_registry' = group_registry
               /\ ngen' = ngen /\ group' = group /\ hooks' = hooks /\ func' = func
      ]_vars

\* C14 witness: set_strategy with an unknown identifier, with group
\* propagation, raised on a member of a group of two one of which had a
\* compiled function, and still has.
C14_Witness ==
    /\ last.op = "set_strategy" /\ last.note = "bogus" /\ last.raised = "Exception"
    /\ last.as_group /\ group[last.g] # NoGroup
    /\ Len(group_registry[group[last.g]]) = 2
    /\ \E m \in Range(group_registry[group[last.g]]) : compiled_func[m] # Null

\* A construction with an unknown identifier raised after a named and grouped
\* generator had been constructed: the registries hold that one only.
C14_ConstructRaised ==
    /\ last.op = "construct" /\ last.note = "bogus" /\ last.raised = "Exception"
    /\ ngen = 1 /\ name_registry["N"] = 1 /\ group_registry["G"] = <<1>>

\* C15: generator(*args, **kwargs) returns a Generator with the default 'dfs'
\* strategy (no name, no group) when it gets one positional callable and no
\* keyword; it returns a wrapper, constructing nothing, when it gets no
\* positional argument and a non-empty set of keywords all among strategy,
\* name, group and metadata, and that wrapper builds the Generator with those
\* keywords; every other combination fails with AssertionError and constructs
\* nothing.
C15_Decorator ==
    [][/\ last'.op = "generator" =>
            LET bare == Len(last'.args) = 1 /\ last'.args[1] = "func" /\ last'.kw = {}
                keyed == /\ last'.args = <<>> /\ last'.kw # {}
                         /\ last'.kw \subseteq {"strategy", "name", "group", "metadata"}
            IN  /\ bare =>
                      /\ last'.raised = "none" /\ ngen' = ngen + 1 /\ last'.g = ngen'
                      /\ strategy'[ngen'] = nstrat' /\ nstrat' = nstrat + 1
                      /\ sstate'[nstrat'].kind = "dfs"
                      /\ group'[ngen'] = NoGroup
                      /\ name_registry' = name_registry /\ group_registry' = group_registry
                /\ keyed =>
                      /\ last'.raised = "none" /\ last'.note = "wrapper"
                      /\ cfgvars' = cfgvars
                /\ ~bare /\ ~keyed =>
                      /\ last'.raised = "AssertionError" /\ last'.note # "wrapper"
                      /\ cfgvars' = cfgvars
       /\ last'.op = "wrapper" =>
            /\ last.op = "generator" /\ last.args = <<>> /\ last.kw # {}
            /\ last.kw \subseteq {"strategy", "name", "group", "metadata"}
            /\ last'.kw = last.kw
            /\ ngen' = ngen + 1 /\ last'.g = ngen'
            /\ last'.note = IF "strategy" \in last.kw THEN "randomized" ELSE "dfs"
            /\ sstate'[last'.h].kind = IF "strategy" \in last.kw THEN "rand" ELSE "dfs"
            /\ strategy'[ngen'] = GroupStrategy(group'[ngen'], last'.h)
            /\ group'[ngen'] = IF "group" \in last.kw THEN "G" ELSE NoGroup
            /\ name_registry'["N"] = IF "name" \in last.kw THEN ngen' ELSE name_registry["N"]
      ]_vars

\* C15 witness: the wrapper returned for the keywords strategy, name and group
\* built a generator after a call that mixed a positional argument with a
\* keyword had failed and a bare generator(f) had built one.
C15_Witness ==
    /\ last.op = "wrapper" /\ last.raised = "none"
    /\ last.kw = {"strategy", "name", "group"}
    /\ ngen = 2 /\ nops = 4
    /\ name_registry["N"] = 2 /\ group[2] = "G" /\ sstate[strategy[2]].kind = "rand"
    /\ sstate[strategy[1]].kind = "dfs" /\ group[1] = NoGroup

\* The positions of the calls of function fn whose callee is a bare name that
\* is a known operator, and the rank of such a position among them.
Sites(fn) == {i \in 1..Len(fn) : fn[i].callee = "name" /\ fn[i].id = "Select"}
Rank(fn, i) == Cardinality({j \in Sites(fn) : j <= i})

\* C16: the compiled function of a generator has the calls of its function's
\* source in the same order; exactly the calls whose callee is a bare name that
\* is a known operator are renamed, the k-th of them in preorder to the name
\* the k-th process_op call returned, a name of its own that is bound to the
\* (hook-wrapped) callable of that call; every other call is as in the source;
\* there are as many process_op results as such calls, and a run invokes no
\* other operator.
C16_RewritesKnownOps ==
    /\ \A g \in 1..ngen : compiled_func[g] # Null =>
          LET c == compiled_func[g]
              fn == func[g]
          IN  /\ Len(c.body) = Len(fn)
              /\ Len(c.ops) = Cardinality(Sites(fn))
              /\ \A i \in 1..Len(fn) :
                    IF i \in Sites(fn)
                    THEN LET k == Rank(fn, i)
                         IN  /\ c.body[i] = [fn[i] EXCEPT !.id = c.ops[k].name]
                             /\ c.ops[k].name \notin CalleeIds
                             /\ c.ops[k].f.op_name = fn[i].id /\ c.ops[k].f.sid = k
                             /\ c.ops[k].f.strategy = c.strategy
                             /\ c.ops[k].f.hooks = c.hooks
                             /\ c.ops[k].f.kind = IF c.hooks = <<>> THEN "op"
                                                  ELSE "create_op"
                    ELSE c.body[i] = fn[i]
              /\ \A j, k \in 1..Len(c.ops) : c.ops[j].name = c.ops[k].name => j = k
    /\ (last.op = "call" /\ last.raised = "none") =>
          /\ Len(last.value) <= Cardinality(Sites(func[last.g]))
          /\ Len(op_events) <= 1 + 2 * Len(hooks[last.g])

\* C16 witness: a function whose three calls are Select by bare name, Select as
\* an attribute and another function by bare name was compiled with a hook:
\* one call was rewritten.
C16_Witness ==
    /\ ngen = 1 /\ compiled_func[1] # Null /\ compiled_func[1].hooks # <<>>
    /\ Len(func[1]) = 3 /\ Sites(func[1]) = {2}
    /\ func[1][1].id = "Select" /\ func[1][1].callee = "attr"
    /\ func[1][3].id = "helper" /\ func[1][3].callee = "name"
    /\ Len(compiled_func[1].ops) = 1
    /\ last.op = "call" /\ last.raised = "none"

\* A known-operator call site of fn carries an 'oid' that is not a string
\* literal.
BadOid(fn) == \E i \in Sites(fn) : fn[i].oid = "expr"

\* C17: a generator whose function has a known-operator call site with an
\* 'oid' keyword that is not a string literal never has a compiled function:
\* its direct call raises the compilation's exception without running the
\* function, and its generate (or trace) ends with that exception at the first
\* value asked for, with no run and with no init issued to a hook or to the
\* strategy; without such a site the compilation does not raise.
C17_BadOidAborts ==
    /\ \A g \in 1..ngen : BadOid(func[g]) => compiled_func[g] = Null
    /\ last.op = "call" =>
          IF BadOid(func[last.g])
          THEN last.raised = "Exception" /\ last.value = <<>> /\ op_events = <<>>
          ELSE last.raised # "Exception" /\ compiled_func[last.g] # Null
    /\ (en.pc \notin {"none", "created"} /\ BadOid(func[en.g])) =>
          /\ en.pc = "failed" /\ en.runs = 0 /\ en.out = <<>>
          /\ log = <<>> /\ op_events = <<>>
          /\ sstate[strategy[en.g]] \in {NewStrategy("dfs"), NewStrategy("rand")}
    /\ (last.op = "next" /\ last.raised = "Exception") => BadOid(func[en.g])

\* C17 witness: generate on a generator with a hook, whose function's second
\* operator call site has a non-literal 'oid', raised at the first value asked
\* for.
C17_Witness ==
    /\ en.pc = "failed" /\ en.kind = "generate" /\ last.op = "next"
    /\ last.raised = "Exception"
    /\ hooks[en.g] # <<>> /\ log = <<>>
    /\ Cardinality(Sites(func[en.g])) = 2
    /\ \E i \in Sites(func[en.g]) :
          func[en.g][i].oid = "expr" /\ Rank(func[en.g], i) = 2

\* C18: under the random strategy is_finished() is false in every state of an
\* enumeration, which therefore never ends by itself: strategy.finish() and the
\* hooks' finish() are never issued, whatever follows the finish_run of a run
\* (yielded or skipped) is the init_run of another run, only a genuine
\* exception of a run ends the enumeration, and every value Select returned is
\* an element of the domain of its call site.
C18_RandomNeverEnds ==
    (en.pc # "none" /\ sstate[strategy[en.g]].kind = "rand") =>
        /\ ~is_finished(sstate[strategy[en.g]])
        /\ en.pc # "done"
        /\ Count(log, "s_finish") = 0 /\ Count(log, "finish") = 0
        /\ en.pc = "failed" => log # <<>> /\ log[Len(log)].e = "raise"
        /\ \A i \in 1..Len(log) : log[i].e = "s_finish_run" =>
              LET n == Len(EnumHooks)
              IN  /\ ContinuesWith(i, ForHooks(EnumHooks, "finish_run"))
                  /\ i + n < Len(log) => log[i + n + 1] = RunStart
        /\ Count(log, "s_finish_run") = Count(log, "skip") + Count(log, "yield")
                                           - (IF en.pc = "yielded" THEN 1 ELSE 0)
        /\ \A i \in 1..Len(en.out) : \A j \in 1..Len(en.out[i].ops) :
              en.out[i].ops[j].retval \in 1..Doms[en.out[i].ops[j].sid]
        /\ \A i \in 1..Len(op_events) :
              op_events[i].e = "op" => op_events[i].retval \in 1..Doms[op_events[i].sid]

\* C18 witness: a random enumeration with a hook that went through a skipped
\* run and a yielded one is in its loop again, about to run once more.
C18_Witness ==
    /\ en.pc = "loop" /\ sstate[strategy[en.g]].kind = "rand"
    /\ en.runs = MaxRandRuns
    /\ Count(log, "skip") >= 1 /\ Len(en.out) >= 1
    /\ hooks[en.g] # <<>>
    /\ ~is_finished(sstate[strategy[en.g]])

\* C19: whenever generate is about to execute a run, the compiled function of
\* its generator is non-null and was compiled against the generator's current
\* strategy and hook list, whatever the consumer called on the generator since
\* the previous value; so no run fails for a missing compiled function.
C19_RunsCompiled ==
    /\ (en.pc = "loop" /\ ~is_finished(sstate[strategy[en.g]])) =>
          compiled_func[en.g] # Null /\ UpToDate(en.g)
    /\ last.op = "next" => last.raised # "TypeError"

\* C20: a deregister_hook call that raises leaves every hook list and every
\* compiled function as it was before the call.
C20_DeregisterAtomic ==
    [][(last'.op = "deregister_hook" /\ last'.raised # "none") =>
          hooks' = hooks /\ compiled_func' = compiled_func
      ]_vars

\* The sum of the graph counts yielded with the batches.
RECURSIVE SumCounts(_, _)
SumCounts(out, i) == IF i > Len(out) THEN 0 ELSE out[i].num_graphs + SumCounts(out, i + 1)

\* C21: the batches get_batch_iterator yields partition its input: once the
\* iterator has ended, every input graph is in exactly one yielded batch and
\* the yielded graph counts sum to the number of input graphs.
C21_BatchesPartition ==
    bi.pc = "done" =>
        /\ \A g \in 1..Len(bi.graph_iter) :
              Cardinality({k \in 1..Len(bi.out) : g \in Range(bi.out[k].graphs)}) = 1
        /\ \A k \in 1..Len(bi.out) :
              \A x, y \in 1..Len(bi.out[k].graphs) :
                  bi.out[k].graphs[x] = bi.out[k].graphs[y] => x = y
        /\ SumCounts(bi.out, 1) = Len(bi.graph_iter)

====
